---- MODULE Spec2Model ----
(***************************************************************************)
(* Model of pyramid_uniform: the Form validation lifecycle (validate,      *)
(* assert_valid, validate_csrf, bind, errors_for, is_error) over a         *)
(* request, a session token and a FormEncode-style schema, and the         *)
(* Renderer / FormRenderer read layer over a snapshot of data and errors.  *)
(*                                                                         *)
(* Field names are sequences of characters, so that prefixes and the       *)
(* dotted paths built by error unpacking are computed, not assumed.        *)
(* Parameter, data and error mappings are functions from field names to    *)
(* strings.                                                                *)
(***************************************************************************)
EXTENDS Integers, Sequences, FiniteSets, TLC

VARIABLES request, schema, method, is_validated, errors, _data, call, pre, prev,
          returned, ret, obj, renderer, rcall

vars == <<request, schema, method, is_validated, errors, _data, call, pre, prev,
          returned, ret, obj, renderer, rcall>>

----------------------------------------------------------------------------
(* Module constant and the field names used by the modelled requests.      *)

csrf_field == <<"_","a","u","t","h","e","n","t","i","c","a","t","i","o","n",
                "_","t","o","k","e","n">>

dict_char == "."

list_char == "-"

NameField == <<"n","a","m","e">>

AddrField == <<"a","d","d","r">>

ZipField == <<"z","i","p">>

AddrZipField == AddrField \o <<dict_char>> \o ZipField

EmptyDict == [k \in {} |-> ""]

NoMethod == "None"

(* dict.pop(key) on a copy: the mapping without that key.                  *)
Pop(params, key) == [k \in (DOMAIN params) \ {key} |-> params[k]]

(* Overlay of two mappings, the first one winning (request.params is the   *)
(* query string combined with the body).                                   *)
Merge(a, b) ==
    [k \in (DOMAIN a) \cup (DOMAIN b) |-> IF k \in DOMAIN a THEN a[k] ELSE b[k]]

----------------------------------------------------------------------------
(* The inputs: requests, sessions and schemas.                             *)

Tokens == {"T", "U"}

Bodies ==
    { EmptyDict,
      [k \in {NameField} |-> ""],
      [k \in {NameField} |-> " Alice"],
      [k \in {AddrZipField} |-> ""],
      [k \in {NameField, AddrZipField} |-> IF k = NameField THEN " Alice" ELSE "9"] }

WithToken(body, tok) ==
    [k \in (DOMAIN body) \cup {csrf_field} |-> IF k = csrf_field THEN tok ELSE body[k]]

ParamSets == Bodies \cup { WithToken(b, "T") : b \in Bodies }

QuerySets == { EmptyDict, WithToken(EmptyDict, "T"), [k \in {NameField} |-> " Alice"] }

Requests ==
    { [method |-> m, POST |-> p, params |-> Merge(g, p),
       session |-> [csrf_token |-> t]] :
        m \in {"POST"}, p \in ParamSets, g \in QuerySets, t \in Tokens }
    \cup
    { [method |-> m, POST |-> EmptyDict, params |-> g,
       session |-> [csrf_token |-> t]] :
        m \in {"GET"}, g \in ParamSets, t \in Tokens }

Schemas == {"strict", "lenient", "nested"}

Methods == {"POST", "GET", NoMethod}

----------------------------------------------------------------------------
(* The Schema Engine collaborator (FormEncode), as the Form calls it.      *)
(* A result is either normalized output, or an Invalid failure whose       *)
(* error_dict maps paths (sequences of nested keys) to messages; an empty  *)
(* error_dict is a failure that carries no per-field mapping.              *)

Accept(value) == [ok |-> TRUE, value |-> value, error_dict |-> <<>>]

Reject(error_dict) == [ok |-> FALSE, value |-> EmptyDict, error_dict |-> error_dict]

OnePath(path, msg) == [p \in {path} |-> msg]

(* String(strip=True): normalization is not the identity.                  *)
Strip(v) == IF v = " Alice" THEN "Alice" ELSE v

(* "strict":  name = String(not_empty, strip); unexpected fields make the  *)
(*            whole schema fail with a bare Invalid (no error_dict).       *)
(* "lenient": the same field, allow_extra_fields, extras passed through.   *)
(* "nested":  NestedVariables + addr sub-schema with a required zip;       *)
(*            other fields are filtered out.                               *)
to_python(sch, params) ==
    IF sch = "nested"
    THEN IF AddrZipField \notin DOMAIN params
         THEN Reject(OnePath(<<AddrField>>, "Missing value"))
         ELSE IF params[AddrZipField] = ""
         THEN Reject(OnePath(<<AddrField, ZipField>>, "Please enter a value"))
         ELSE Accept([k \in {AddrField} |-> params[AddrZipField]])
    ELSE IF sch = "strict" /\ (DOMAIN params) \ {NameField} # {}
    THEN Reject(<<>>)
    ELSE IF NameField \notin DOMAIN params
    THEN Reject(OnePath(<<NameField>>, "Missing value"))
    ELSE IF params[NameField] = ""
    THEN Reject(OnePath(<<NameField>>, "Please enter a value"))
    ELSE Accept([k \in DOMAIN params |->
                    IF k = NameField THEN Strip(params[k]) ELSE params[k]])

RECURSIVE JoinPath(_, _)
JoinPath(path, sep) ==
    IF Len(path) = 1 THEN path[1]
    ELSE path[1] \o <<sep>> \o JoinPath(Tail(path), sep)

(* Invalid.unpack_errors(True, dict_char, list_char): nested keys become   *)
(* flat field paths joined by dict_char.  The modelled schemas produce no  *)
(* list-valued errors, so list_char joins nothing here.                    *)
unpack_errors_toplevel(error_dict, dc, lc) ==
    [k \in { p[1] : p \in DOMAIN error_dict } |->
        error_dict[CHOOSE p \in DOMAIN error_dict : p[1] = k]]

unpack_errors(error_dict, dc, lc) ==
    [k \in { JoinPath(p, dc) : p \in DOMAIN error_dict } |->
        error_dict[CHOOSE p \in DOMAIN error_dict : JoinPath(p, dc) = k]]

----------------------------------------------------------------------------
(* Form                                                                    *)

(* The data property: the stored result once validated, else the           *)
(* FormNotValidated error.                                                 *)
data_unchecked == [raises |-> "None", value |-> _data.value]

data ==
    IF is_validated THEN [raises |-> "None", value |-> _data.value]
    ELSE [raises |-> "FormNotValidated", value |-> EmptyDict]

method_allowed_always == TRUE

method_allowed ==
    IF method # NoMethod THEN request.method = method ELSE TRUE

_get_params_combined == request.params

_get_params ==
    IF method = "POST" THEN request.POST ELSE request.params

(* The outcome of validate_csrf on a parameter mapping: the exception it   *)
(* raises, or "None" for a normal return.                                  *)
csrf_outcome_presence_only(params) ==
    IF csrf_field \notin DOMAIN params THEN "HTTPBadRequest" ELSE "None"

csrf_outcome(params) ==
    IF csrf_field \notin DOMAIN params THEN "HTTPBadRequest"
    ELSE IF params[csrf_field] # request.session.csrf_token THEN "HTTPBadRequest"
    ELSE "None"

(* "return not self.errors" of an already validated form.                  *)
cached_valid_always == "True"

cached_valid ==
    IF DOMAIN errors = {} THEN "True" ELSE "False"

(* The parameter copy handed on after the CSRF check, without the token.   *)
strip_csrf_keep(params) == params

strip_csrf(params) == Pop(params, csrf_field)

(* "if e.error_dict": does the Invalid failure carry a per-field mapping?  *)
has_error_dict_always(e) == TRUE

has_error_dict(e) == DOMAIN e.error_dict # {}

Stored(value) == [set |-> TRUE, value |-> value]

Unset == [set |-> FALSE, value |-> EmptyDict]

(* The schema step of validate: store the parameters, call the engine,     *)
(* keep its output or unpack its errors, and mark the form validated.      *)
run_schema_mark_on_success(params) ==
    LET r == to_python(schema, params)
    IN  IF r.ok
        THEN [raises |-> "None", _data |-> Stored(r.value), errors |-> errors,
              is_validated |-> TRUE]
        ELSE IF has_error_dict(r)
        THEN [raises |-> "None", _data |-> Stored(params),
              errors |-> unpack_errors(r.error_dict, dict_char, list_char),
              is_validated |-> is_validated]
        ELSE [raises |-> "Invalid", _data |-> Stored(params), errors |-> errors,
              is_validated |-> is_validated]

run_schema_keep_raw(params) ==
    LET r == to_python(schema, params)
    IN  IF r.ok
        THEN [raises |-> "None", _data |-> Stored(params), errors |-> errors,
              is_validated |-> TRUE]
        ELSE IF has_error_dict(r)
        THEN [raises |-> "None", _data |-> Stored(params),
              errors |-> unpack_errors(r.error_dict, dict_char, list_char),
              is_validated |-> TRUE]
        ELSE [raises |-> "Invalid", _data |-> Stored(params), errors |-> errors,
              is_validated |-> is_validated]

run_schema(params) ==
    LET r == to_python(schema, params)
    IN  IF r.ok
        THEN [raises |-> "None", _data |-> Stored(r.value), errors |-> errors,
              is_validated |-> TRUE]
        ELSE IF has_error_dict(r)
        THEN [raises |-> "None", _data |-> Stored(params),
              errors |-> unpack_errors(r.error_dict, dict_char, list_char),
              is_validated |-> TRUE]
        ELSE [raises |-> "Invalid", _data |-> Stored(params), errors |-> errors,
              is_validated |-> is_validated]

NoSchemaCall == [called |-> FALSE, params |-> EmptyDict]

(* A validate() call that stops before the schema step.                    *)
Stop(outcome, csrf_checked) ==
    [outcome |-> outcome, is_validated |-> is_validated, errors |-> errors,
     _data |-> _data, csrf_checked |-> csrf_checked, schema_in |-> NoSchemaCall]

(* Form.validate: the outcome (the boolean returned, as "True"/"False", or *)
(* the exception raised) and the Form's fields after the call.             *)
validate(skip_csrf, assert_valid) ==
    IF is_validated THEN Stop(cached_valid, FALSE)
    ELSE IF assert_valid /\ ~method_allowed THEN Stop("AssertionError", FALSE)
    ELSE IF ~assert_valid /\ ~method_allowed THEN Stop("False", FALSE)
    ELSE IF ~skip_csrf /\ csrf_outcome(_get_params) # "None"
    THEN Stop(csrf_outcome(_get_params), TRUE)
    ELSE
      LET params == IF skip_csrf THEN _get_params ELSE strip_csrf(_get_params)
          s == run_schema(params)
          valid == DOMAIN s.errors = {}
      IN  [outcome |-> IF s.raises # "None" THEN s.raises
                       ELSE IF assert_valid /\ ~valid THEN "AssertionError"
                       ELSE IF valid THEN "True" ELSE "False",
           is_validated |-> s.is_validated, errors |-> s.errors, _data |-> s._data,
           csrf_checked |-> ~skip_csrf,
           schema_in |-> [called |-> TRUE, params |-> params]]

(* Form.bind on an object with attributes o: the exception raised, or     *)
(* "None", and the object's attributes afterwards.  Every key of data     *)
(* that does not start with an underscore is set on the object.           *)
bind_ignoring_errors(o) ==
    IF ~is_validated THEN [raises |-> "FormNotValidated", obj |-> o]
    ELSE LET items == { k \in DOMAIN _data.value : ~(Len(k) > 0 /\ Head(k) = "_") }
         IN  [raises |-> "None",
              obj |-> [k \in (DOMAIN o) \cup items |->
                          IF k \in items THEN _data.value[k] ELSE o[k]]]

bind_all_keys(o) ==
    IF ~is_validated THEN [raises |-> "FormNotValidated", obj |-> o]
    ELSE IF DOMAIN errors # {} THEN [raises |-> "FormInvalid", obj |-> o]
    ELSE [raises |-> "None",
          obj |-> [k \in (DOMAIN o) \cup (DOMAIN _data.value) |->
                      IF k \in DOMAIN _data.value THEN _data.value[k] ELSE o[k]]]

bind(o) ==
    IF ~is_validated THEN [raises |-> "FormNotValidated", obj |-> o]
    ELSE IF DOMAIN errors # {} THEN [raises |-> "FormInvalid", obj |-> o]
    ELSE LET items == { k \in DOMAIN data.value : ~(Len(k) > 0 /\ Head(k) = "_") }
         IN  [raises |-> "None",
              obj |-> [k \in (DOMAIN o) \cup items |->
                          IF k \in items THEN data.value[k] ELSE o[k]]]

(* Form.errors_for: the messages of a field as a sequence; a bare string   *)
(* becomes a one-element sequence.                                         *)
errors_for(field) ==
    IF field \in DOMAIN errors THEN <<errors[field]>> ELSE <<>>

(* Form.is_error                                                           *)
is_error(field) == field \in DOMAIN errors

----------------------------------------------------------------------------
(* Operations.  call records the last operation and what it did, pre the   *)
(* Form's fields before it, prev the operation before that, returned the   *)
(* booleans that validate() has returned so far, ret what the last         *)
(* operation handed back.                                                  *)

FormFields == [is_validated |-> is_validated, errors |-> errors, _data |-> _data]

Brief(c) ==
    [op |-> c.op, skip_csrf |-> c.skip_csrf, assert_valid |-> c.assert_valid,
     outcome |-> c.outcome]

NoCall ==
    [op |-> "init", skip_csrf |-> FALSE, assert_valid |-> FALSE,
     given |-> FALSE, params |-> EmptyDict, outcome |-> "None",
     csrf_checked |-> FALSE, schema_in |-> NoSchemaCall]

(* What an operation hands back besides its outcome.                       *)
NoRet ==
    [flag |-> FALSE, text |-> "", items |-> <<>>, attrs |-> EmptyDict,
     name |-> <<>>, wrapped |-> FALSE]

NoRenderer ==
    [kind |-> "none", data |-> EmptyDict, errors |-> EmptyDict, id_prefix |-> <<>>,
     csrf_field |-> <<>>]

(* Python's None where a string is expected, and where a name is.          *)
PyNone == "<None>"

NoName == <<>>

NoRCall ==
    [op |-> "init", name |-> NoName, arg |-> PyNone, outcome |-> "None",
     handed |-> PyNone, wrapped |-> FALSE, id |-> NoName, items |-> <<>>,
     flag |-> FALSE]

Objects ==
    { EmptyDict,
      [k \in {NameField, csrf_field, ZipField} |-> "old"] }

FieldNames == {NameField, AddrZipField}

Init ==
    /\ returned = {}
    /\ ret = NoRet
    /\ obj = EmptyDict
    /\ renderer = NoRenderer
    /\ rcall = NoRCall
    /\ request \in Requests
    /\ schema \in Schemas
    /\ method \in Methods
    /\ is_validated = FALSE
    /\ errors = EmptyDict
    /\ _data = Unset
    /\ call = NoCall
    /\ pre = [is_validated |-> FALSE, errors |-> EmptyDict, _data |-> Unset]
    /\ prev = Brief(NoCall)

Apply(op, skip_csrf, assert_valid, v, outcome) ==
    /\ is_validated' = v.is_validated
    /\ errors' = v.errors
    /\ _data' = v._data
    /\ call' = [op |-> op, skip_csrf |-> skip_csrf, assert_valid |-> assert_valid,
                given |-> FALSE, params |-> EmptyDict, outcome |-> outcome,
                csrf_checked |-> v.csrf_checked, schema_in |-> v.schema_in]
    /\ pre' = FormFields
    /\ prev' = Brief(call)
    /\ returned' = returned \cup ({v.outcome} \cap {"True", "False"})
    /\ ret' = NoRet
    /\ UNCHANGED <<request, schema, method, obj, renderer, rcall>>

Validate ==
    \E skip_csrf \in BOOLEAN, assert_valid \in BOOLEAN :
        LET v == validate(skip_csrf, assert_valid)
        IN  Apply("validate", skip_csrf, assert_valid, v, v.outcome)

(* Form.assert_valid: validate with assert_valid=True, result dropped.    *)
AssertValid ==
    \E skip_csrf \in BOOLEAN :
        LET v == validate(skip_csrf, TRUE)
        IN  Apply("assert_valid", skip_csrf, TRUE, v,
                  IF v.outcome \in {"True", "False"} THEN "None" ELSE v.outcome)

(* validate_csrf(params=None), called on its own.                          *)
ValidateCsrf ==
    \E given \in BOOLEAN :
      \E p \in (IF given THEN ParamSets ELSE {EmptyDict}) :
        /\ call' = [op |-> "validate_csrf", skip_csrf |-> FALSE,
                    assert_valid |-> FALSE, given |-> given, params |-> p,
                    outcome |-> csrf_outcome(IF given THEN p ELSE _get_params),
                    csrf_checked |-> TRUE, schema_in |-> NoSchemaCall]
        /\ pre' = FormFields
        /\ prev' = Brief(call)
        /\ ret' = NoRet
        /\ UNCHANGED <<request, schema, method, is_validated, errors, _data,
                       returned, obj, renderer, rcall>>

Next == Validate \/ AssertValid \/ ValidateCsrf

Spec == Init /\ [][Next]_vars

(* An operation that reads the Form and leaves its fields alone.           *)
Query(op, outcome, r) ==
    /\ call' = [NoCall EXCEPT !.op = op, !.outcome = outcome]
    /\ ret' = r
    /\ pre' = FormFields
    /\ prev' = Brief(call)
    /\ UNCHANGED <<request, schema, method, is_validated, errors, _data, returned>>

Bind ==
    LET b == bind(obj)
    IN  /\ Query("bind", b.raises,
                 IF b.raises = "None" THEN [NoRet EXCEPT !.attrs = b.obj] ELSE NoRet)
        /\ obj' = b.obj
        /\ UNCHANGED <<renderer, rcall>>

ErrorsFor ==
    \E field \in FieldNames :
        /\ Query("errors_for", "None",
                 [NoRet EXCEPT !.items = errors_for(field), !.name = field])
        /\ UNCHANGED <<obj, renderer, rcall>>

IsError ==
    \E field \in FieldNames :
        /\ Query("is_error", "None",
                 [NoRet EXCEPT !.flag = is_error(field), !.name = field])
        /\ UNCHANGED <<obj, renderer, rcall>>

(* Requests without a query string beside the body.                       *)
BodyRequests == { r \in Requests : r.method = "GET" \/ r.params = r.POST }

(* The Form on its own: every Form operation, on an object that may        *)
(* already carry attributes.                                               *)
InitForm ==
    /\ returned = {}
    /\ ret = NoRet
    /\ obj \in Objects
    /\ renderer = NoRenderer
    /\ rcall = NoRCall
    /\ request \in BodyRequests
    /\ schema \in Schemas
    /\ method \in Methods
    /\ is_validated = FALSE
    /\ errors = EmptyDict
    /\ _data = Unset
    /\ call = NoCall
    /\ pre = [is_validated |-> FALSE, errors |-> EmptyDict, _data |-> Unset]
    /\ prev = Brief(NoCall)

NextForm == Validate \/ AssertValid \/ ValidateCsrf \/ Bind \/ ErrorsFor \/ IsError

SpecForm == InitForm /\ [][NextForm]_vars

----------------------------------------------------------------------------
(* Renderer and FormRenderer.  renderer is the renderer object last        *)
(* constructed: its snapshot of data and errors, its id_prefix, and, for a *)
(* FormRenderer, its csrf_field and its reference to the Form.  rcall      *)
(* records the last renderer operation.                                    *)

CustomCsrfField == <<"_","c","s","r","f">>

Prefix == <<"p","_">>

(* literal-escaping of a message by the tag builder                        *)
Escape(msg) == IF msg = "a<b" THEN "a&lt;b" ELSE msg

Snapshots ==
    { [data |-> EmptyDict, errors |-> EmptyDict, id_prefix |-> NoName],
      [data |-> [k \in {NameField} |-> "stored"],
       errors |-> [k \in {NameField} |-> "a<b"], id_prefix |-> Prefix] }

Builders == {"text", "file", "hidden", "submit", "select", "textarea", "password"}

(* Renderer.value                                                          *)
value_default_only(name, default) == default

value(name, default) ==
    IF name \in DOMAIN renderer.data THEN renderer.data[name] ELSE default

(* Renderer._get_id                                                        *)
_get_id(id, name) ==
    IF id = NoName
    THEN IF renderer.id_prefix # NoName THEN renderer.id_prefix \o name ELSE name
    ELSE id

(* Renderer.is_error                                                       *)
Renderer_is_error(name) == name \in DOMAIN renderer.errors

(* Renderer.errors_for: delegates to self.form, an attribute that only a   *)
(* FormRenderer has.                                                       *)
Renderer_errors_for(name) ==
    IF renderer.kind # "FormRenderer"
    THEN [raises |-> "AttributeError", items |-> <<>>]
    ELSE [raises |-> "None", items |-> errors_for(name)]

(* Renderer.errorlist: "" without errors, else a ul of one li per message. *)
errorlist(name) ==
    LET e == Renderer_errors_for(name)
    IN  IF e.raises # "None" THEN [raises |-> e.raises, text |-> "", items |-> <<>>]
        ELSE IF e.items = <<>> THEN [raises |-> "None", text |-> "", items |-> <<>>]
        ELSE [raises |-> "None", text |-> "ul",
              items |-> [i \in 1..Len(e.items) |-> Escape(e.items[i])]]

(* The value a control builder hands to the tag builder, and whether it is *)
(* wrapped in a list (select).                                             *)
control_value(builder, name, v) ==
    IF builder = "hidden"
    THEN [handed |-> IF v = PyNone THEN value(name, PyNone) ELSE v, wrapped |-> FALSE]
    ELSE [handed |-> value(name, v), wrapped |-> builder = "select"]

(* FormRenderer.csrf: the hidden field's name and value.                   *)
csrf(name) ==
    LET n == IF name # NoName THEN name ELSE renderer.csrf_field
    IN  [name |-> n,
         handed |-> control_value("hidden", n, request.session.csrf_token).handed]

RendererStep(rc) ==
    /\ rcall' = rc
    /\ UNCHANGED <<request, schema, method, is_validated, errors, _data, call,
                   pre, prev, returned, ret, obj>>

NewRenderer ==
    \E snap \in Snapshots :
        /\ renderer' = [kind |-> "Renderer", data |-> snap.data,
                        errors |-> snap.errors, id_prefix |-> snap.id_prefix,
                        csrf_field |-> NoName]
        /\ RendererStep([NoRCall EXCEPT !.op = "Renderer"])

(* FormRenderer.__init__: reading form.data raises on an unvalidated form, *)
(* and then no renderer comes into being.                                  *)
NewFormRenderer ==
    \E cf \in {csrf_field, CustomCsrfField} :
        IF data.raises # "None"
        THEN /\ renderer' = renderer
             /\ RendererStep([NoRCall EXCEPT !.op = "FormRenderer",
                                             !.outcome = data.raises])
        ELSE /\ renderer' = [kind |-> "FormRenderer", data |-> data.value,
                             errors |-> errors, id_prefix |-> NoName,
                             csrf_field |-> cf]
             /\ RendererStep([NoRCall EXCEPT !.op = "FormRenderer"])

RendererIsError ==
    /\ renderer.kind # "none"
    /\ \E name \in FieldNames :
        RendererStep([NoRCall EXCEPT !.op = "is_error", !.name = name,
                                     !.flag = Renderer_is_error(name)])
    /\ UNCHANGED renderer

RendererErrorsFor ==
    /\ renderer.kind # "none"
    /\ \E name \in FieldNames :
        LET e == Renderer_errors_for(name)
        IN  RendererStep([NoRCall EXCEPT !.op = "errors_for", !.name = name,
                                         !.outcome = e.raises, !.items = e.items])
    /\ UNCHANGED renderer

Errorlist ==
    /\ renderer.kind # "none"
    /\ \E name \in FieldNames :
        LET e == errorlist(name)
        IN  RendererStep([NoRCall EXCEPT !.op = "errorlist", !.name = name,
                                         !.outcome = e.raises, !.handed = e.text,
                                         !.items = e.items])
    /\ UNCHANGED renderer

Value ==
    /\ renderer.kind # "none"
    /\ \E name \in FieldNames, default \in {PyNone, "d"} :
        RendererStep([NoRCall EXCEPT !.op = "value", !.name = name, !.arg = default,
                                     !.handed = value(name, default)])
    /\ UNCHANGED renderer

Control ==
    /\ renderer.kind # "none"
    /\ \E builder \in Builders, name \in {NameField}, v \in {PyNone, "explicit"} :
        LET c == control_value(builder, name, v)
        IN  RendererStep([NoRCall EXCEPT !.op = builder, !.name = name, !.arg = v,
                                         !.handed = c.handed, !.wrapped = c.wrapped,
                                         !.id = _get_id(NoName, name)])
    /\ UNCHANGED renderer

Csrf ==
    /\ renderer.kind = "FormRenderer"
    /\ \E name \in {NoName, CustomCsrfField} :
        LET c == csrf(name)
        IN  RendererStep([NoRCall EXCEPT !.op = "csrf", !.name = c.name,
                                         !.handed = c.handed,
                                         !.id = _get_id(NoName, c.name)])
    /\ UNCHANGED renderer

(* A request that submits exactly the field FormRenderer.csrf rendered,    *)
(* checked by Form.validate_csrf.                                          *)
ValidateCsrfRendered ==
    /\ rcall.op = "csrf"
    /\ LET p == [k \in {rcall.name} |-> rcall.handed]
       IN  call' = [op |-> "validate_csrf", skip_csrf |-> FALSE,
                    assert_valid |-> FALSE, given |-> TRUE, params |-> p,
                    outcome |-> csrf_outcome(p),
                    csrf_checked |-> TRUE, schema_in |-> NoSchemaCall]
    /\ pre' = FormFields
    /\ prev' = Brief(call)
    /\ ret' = NoRet
    /\ UNCHANGED <<request, schema, method, is_validated, errors, _data,
                   returned, obj, renderer, rcall>>

RenderRequests ==
    { r \in BodyRequests :
        /\ r.session.csrf_token = "T"
        /\ AddrZipField \notin DOMAIN r.params
        /\ r.method = "GET" => r.params = EmptyDict }

InitRender ==
    /\ returned = {}
    /\ ret = NoRet
    /\ obj = EmptyDict
    /\ renderer = NoRenderer
    /\ rcall = NoRCall
    /\ request \in RenderRequests
    /\ schema = "lenient"
    /\ method = "POST"
    /\ is_validated = FALSE
    /\ errors = EmptyDict
    /\ _data = Unset
    /\ call = NoCall
    /\ pre = [is_validated |-> FALSE, errors |-> EmptyDict, _data |-> Unset]
    /\ prev = Brief(NoCall)

NextRender ==
    \/ Validate \/ AssertValid \/ Bind
    \/ NewRenderer \/ NewFormRenderer
    \/ RendererIsError \/ RendererErrorsFor \/ Errorlist \/ Value \/ Control
    \/ Csrf \/ ValidateCsrfRendered

SpecRender == InitRender /\ [][NextRender]_vars

----------------------------------------------------------------------------
(* Properties.  They are stated over the request and the recorded call,    *)
(* not through the Form's own helpers.                                     *)

IsValidateCall == call.op \in {"validate", "assert_valid"}

ReturnedBool(c) == c.op = "validate" /\ c.outcome \in {"True", "False"}

(* The parameters the Form's configured method selects.                    *)
Submitted == IF method = "POST" THEN request.POST ELSE request.params

TokenGood(p) ==
    /\ csrf_field \in DOMAIN p
    /\ p[csrf_field] = request.session.csrf_token

MethodMismatch == method # NoMethod /\ request.method # method

WithoutToken(p) == [k \in (DOMAIN p) \ {csrf_field} |-> p[k]]

(* C1: assert_valid() returns normally only if the form is valid, i.e.     *)
(* is_validated is true and errors is empty; an invalid form makes it      *)
(* raise, also when an earlier validate() already found errors.            *)
C1_AssertValidReturnsOnlyIfValid ==
    (call.op = "assert_valid" /\ call.outcome = "None")
        => (is_validated /\ DOMAIN errors = {})

(* C2: a validate() or assert_valid() call made with skip_csrf=False       *)
(* returns true (resp. normally) only if the request's parameters carry    *)
(* the CSRF field with the session's token, also after an earlier call     *)
(* made with skip_csrf=True.                                               *)
C2_NoSkipReturnsTrueOnlyWithToken ==
    (/\ IsValidateCall
     /\ ~call.skip_csrf
     /\ call.outcome = (IF call.op = "validate" THEN "True" ELSE "None"))
        => TokenGood(Submitted)

(* C3: validate() is idempotent: when a validate() call that returned a    *)
(* boolean is followed by a validate() call with the same arguments, the   *)
(* second call returns the same boolean and leaves data, errors and        *)
(* is_validated as the first call left them.                               *)
C3_ValidateIdempotent ==
    (/\ ReturnedBool(prev)
     /\ call.op = "validate"
     /\ call.skip_csrf = prev.skip_csrf
     /\ call.assert_valid = prev.assert_valid)
        => (/\ call.outcome = prev.outcome
            /\ FormFields = pre)

C3_Witness ==
    /\ ReturnedBool(prev)
    /\ call.op = "validate"
    /\ call.skip_csrf = prev.skip_csrf
    /\ call.assert_valid = prev.assert_valid
    /\ prev.outcome = "False"
    /\ is_validated
    /\ DOMAIN errors # {}

(* C4 as stated: after every validate() call that returns a boolean, for   *)
(* any request method, is_validated is true and data can be read.          *)
C4_ValidatedAfterAnyBoolean ==
    ReturnedBool(call) => (is_validated /\ data.raises = "None")

(* C4 amended: after every validate() call that returns a boolean,         *)
(* is_validated is true and data can be read, except when the call         *)
(* returned false because the request method does not match the            *)
(* configured method on a not yet validated form; then is_validated        *)
(* stays false and reading data fails with FormNotValidated.               *)
C4_ValidatedAfterBooleanUnlessMethodMismatch ==
    ReturnedBool(call) =>
        IF MethodMismatch /\ ~pre.is_validated
        THEN call.outcome = "False" /\ ~is_validated
                /\ data.raises = "FormNotValidated"
        ELSE is_validated /\ data.raises = "None"

C4_Witness ==
    /\ ReturnedBool(call)
    /\ ~pre.is_validated
    /\ ~MethodMismatch
    /\ call.outcome = "False"
    /\ is_validated
    /\ data.raises = "None"

(* C5: in a validate(skip_csrf=False) call that reaches the CSRF step (the *)
(* form not yet validated, the method allowed), a missing or wrong CSRF    *)
(* field makes the bad-request error propagate, the schema engine is not   *)
(* invoked, errors stays empty and is_validated stays false; and whenever  *)
(* such a call does invoke the schema engine, the token was checked and    *)
(* was good.                                                               *)
C5_CsrfFailureHaltsValidation ==
    (IsValidateCall /\ ~call.skip_csrf /\ ~pre.is_validated /\ ~MethodMismatch)
        => /\ ~TokenGood(Submitted)
                => (/\ call.outcome = "HTTPBadRequest"
                    /\ call.csrf_checked
                    /\ ~call.schema_in.called
                    /\ DOMAIN errors = {}
                    /\ ~is_validated)
           /\ call.schema_in.called
                => (call.csrf_checked /\ TokenGood(Submitted))

C5_Witness ==
    /\ call.op = "validate"
    /\ ~call.skip_csrf
    /\ call.outcome = "HTTPBadRequest"
    /\ csrf_field \in DOMAIN Submitted
    /\ ~call.schema_in.called
    /\ ~is_validated

(* C6: validate_csrf(params) raises the bad-request error when the CSRF    *)
(* field is absent and when it is present with a value other than the      *)
(* session's token, and returns normally exactly when it is present and    *)
(* equal; without params it checks the parameters selected by the form's   *)
(* configured method.                                                      *)
C6_ValidateCsrf ==
    call.op = "validate_csrf" =>
        LET p == IF call.given THEN call.params ELSE Submitted
        IN  /\ (call.outcome = "None") <=> TokenGood(p)
            /\ ~TokenGood(p) => call.outcome = "HTTPBadRequest"

C6_Witness ==
    /\ call.op = "validate_csrf"
    /\ ~call.given
    /\ call.outcome = "None"
    /\ request.POST # request.params

(* C7: on a not yet validated form whose configured method differs from   *)
(* the request's, validate(assert_valid=False) returns false and           *)
(* validate(assert_valid=True) raises AssertionError, in both cases        *)
(* without the CSRF check and without the schema engine; with no method    *)
(* configured every request method gets past the method check.             *)
C7_MethodMismatch ==
    (IsValidateCall /\ ~pre.is_validated) =>
        IF MethodMismatch
        THEN /\ call.outcome = (IF call.assert_valid THEN "AssertionError" ELSE "False")
             /\ ~call.csrf_checked
             /\ ~call.schema_in.called
             /\ FormFields = pre
        ELSE call.csrf_checked \/ call.schema_in.called

C7_Witness ==
    /\ call.op = "validate"
    /\ ~call.assert_valid
    /\ method = "POST"
    /\ request.method = "GET"
    /\ call.outcome = "False"
    /\ ~is_validated

(* C8: on a not yet validated form, validate() (CSRF not skipped) of a     *)
(* request with an allowed method and a good token, whose remaining        *)
(* parameters the schema engine accepts, returns true (assert_valid        *)
(* returns normally); the schema engine was handed the parameters without  *)
(* the CSRF field, data is its normalized output for them, errors is empty *)
(* and is_validated is true.                                               *)
C8_ValidSubmission ==
    (/\ IsValidateCall
     /\ ~pre.is_validated
     /\ ~call.skip_csrf
     /\ ~MethodMismatch
     /\ TokenGood(Submitted)
     /\ to_python(schema, WithoutToken(Submitted)).ok)
        => (/\ call.outcome = (IF call.op = "validate" THEN "True" ELSE "None")
            /\ call.schema_in.called
            /\ csrf_field \notin DOMAIN call.schema_in.params
            /\ call.schema_in.params = WithoutToken(Submitted)
            /\ data.raises = "None"
            /\ data.value = to_python(schema, WithoutToken(Submitted)).value
            /\ DOMAIN errors = {}
            /\ is_validated)

C8_Witness ==
    /\ call.op = "validate"
    /\ ~call.skip_csrf
    /\ call.outcome = "True"
    /\ Submitted[NameField] = " Alice"
    /\ data.value = [k \in {NameField} |-> "Alice"]
    /\ schema = "strict"

(* C9: when the schema engine rejects the parameters it was handed with a  *)
(* per-field error mapping and assert_valid is false, validate() returns   *)
(* false, is_validated is true, and errors is exactly the unpacked         *)
(* mapping: one non-empty message under the dotted path of each failing    *)
(* field.                                                                  *)
C9_StructuredRejection ==
    (/\ call.op = "validate"
     /\ ~call.assert_valid
     /\ call.schema_in.called
     /\ ~to_python(schema, call.schema_in.params).ok
     /\ DOMAIN to_python(schema, call.schema_in.params).error_dict # {})
        => LET e == to_python(schema, call.schema_in.params).error_dict
               Dotted(p) == IF Len(p) = 1 THEN p[1] ELSE p[1] \o <<".">> \o p[2]
           IN  /\ call.outcome = "False"
               /\ is_validated
               /\ DOMAIN errors = { Dotted(p) : p \in DOMAIN e }
               /\ \A p \in DOMAIN e :
                    errors[Dotted(p)] = e[p] /\ errors[Dotted(p)] # ""

C9_Witness ==
    /\ call.op = "validate"
    /\ ~call.assert_valid
    /\ call.outcome = "False"
    /\ is_validated
    /\ DOMAIN errors = {<<"a","d","d","r",".","z","i","p">>}

(* C10: when the schema engine fails without a per-field error mapping,    *)
(* validate() raises that failure: errors stays empty and the form is not  *)
(* marked validated; a validate() call right after it runs the checks      *)
(* again, and invokes the schema engine again unless its CSRF check fails. *)
C10_UnstructuredFailurePropagates ==
    /\ (/\ IsValidateCall
        /\ call.schema_in.called
        /\ ~to_python(schema, call.schema_in.params).ok
        /\ DOMAIN to_python(schema, call.schema_in.params).error_dict = {})
            => (/\ call.outcome = "Invalid"
                /\ DOMAIN errors = {}
                /\ ~is_validated)
    /\ (/\ prev.op \in {"validate", "assert_valid"}
        /\ prev.outcome = "Invalid"
        /\ IsValidateCall)
            => (/\ call.csrf_checked \/ call.schema_in.called
                /\ (call.skip_csrf \/ TokenGood(Submitted)) => call.schema_in.called)

C10_Witness ==
    /\ prev.op = "validate"
    /\ prev.outcome = "Invalid"
    /\ call.op = "validate"
    /\ call.outcome = "Invalid"
    /\ call.schema_in.called
    /\ ~is_validated

(* C11: in every reachable Form state, after any sequence of validate,    *)
(* assert_valid, validate_csrf, bind, errors_for and is_error calls,       *)
(* raising ones included: while is_validated is false, errors is empty and *)
(* reading data fails with FormNotValidated; reading data succeeds only    *)
(* when is_validated is true.                                              *)
C11_UnvalidatedFormHasNoErrorsNoData ==
    /\ ~is_validated => (DOMAIN errors = {} /\ data.raises = "FormNotValidated")
    /\ data.raises = "None" => is_validated

C11_Witness ==
    /\ prev.op = "validate"
    /\ prev.outcome = "Invalid"
    /\ call.op = "bind"
    /\ call.outcome = "FormNotValidated"
    /\ _data.set
    /\ ~is_validated

(* C12 as stated: whenever reading data yields a mapping, errors is empty  *)
(* and the mapping is the schema engine's normalized output of the         *)
(* submitted parameters (with or without the CSRF field).                  *)
C12_DataOnlyFromSuccess ==
    data.raises = "None" =>
        /\ DOMAIN errors = {}
        /\ \E p \in {Submitted, WithoutToken(Submitted)} :
                to_python(schema, p).ok /\ data.value = to_python(schema, p).value

(* C12 amended: whenever reading data yields a mapping, either errors is   *)
(* empty and the mapping is the schema engine's normalized output of a     *)
(* validation that succeeded, or errors is non-empty and the mapping is    *)
(* the raw parameters that the schema engine was handed and rejected.      *)
C12_DataNormalizedOrRawOnErrors ==
    data.raises = "None" =>
        IF DOMAIN errors = {}
        THEN \E p \in {Submitted, WithoutToken(Submitted)} :
                to_python(schema, p).ok /\ data.value = to_python(schema, p).value
        ELSE \E p \in {Submitted, WithoutToken(Submitted)} :
                ~to_python(schema, p).ok /\ data.value = p

C12_Witness ==
    /\ data.raises = "None"
    /\ DOMAIN errors = {}
    /\ NameField \in DOMAIN Submitted
    /\ NameField \in DOMAIN data.value
    /\ data.value[NameField] # Submitted[NameField]

(* C13: bind(obj) on a form that is not validated fails with               *)
(* FormNotValidated; otherwise, on a form with errors, it fails with       *)
(* FormInvalid; a failing bind sets no attribute of obj and leaves the     *)
(* Form's fields as they were.                                             *)
C13_BindPreconditions ==
    [][call'.op = "bind" =>
          IF ~is_validated
          THEN /\ call'.outcome = "FormNotValidated"
               /\ obj' = obj
               /\ UNCHANGED <<is_validated, errors, _data>>
          ELSE IF DOMAIN errors # {}
          THEN /\ call'.outcome = "FormInvalid"
               /\ obj' = obj
               /\ UNCHANGED <<is_validated, errors, _data>>
          ELSE call'.outcome = "None"]_vars

C13_Witness ==
    /\ call.op = "bind"
    /\ call.outcome = "FormInvalid"
    /\ is_validated
    /\ NameField \in DOMAIN obj
    /\ obj[NameField] = "old"

(* C14 as stated: once a validate() call has returned false, for whatever  *)
(* reason, a following bind(obj) fails with FormInvalid.                   *)
C14_BindAfterFalseIsInvalid ==
    (call.op = "bind" /\ "False" \in returned) => call.outcome = "FormInvalid"

(* C14 amended: once a validate() call has returned false, a following     *)
(* bind(obj) fails: with FormInvalid when the validation ran and found     *)
(* errors, and with FormNotValidated when false was returned because the   *)
(* request method does not match the form's configured method.             *)
C14_BindAfterFalseFails ==
    (call.op = "bind" /\ "False" \in returned) =>
        IF MethodMismatch
        THEN call.outcome = "FormNotValidated" /\ ~is_validated
        ELSE call.outcome = "FormInvalid" /\ is_validated /\ DOMAIN errors # {}

C14_Witness ==
    /\ call.op = "bind"
    /\ returned = {"False"}
    /\ ~MethodMismatch
    /\ call.outcome = "FormInvalid"
    /\ prev.op = "validate"

(* C15: bind(obj) on a validated form without errors sets on obj exactly   *)
(* the keys of data that do not start with an underscore, each to its      *)
(* validated value, leaves every other attribute of obj untouched, returns *)
(* obj, and leaves the Form's data, errors and is_validated alone.         *)
C15_BindCopiesPublicKeys ==
    [][(call'.op = "bind" /\ is_validated /\ DOMAIN errors = {}) =>
          LET public == { k \in DOMAIN _data.value : k[1] # "_" }
          IN  /\ call'.outcome = "None"
              /\ DOMAIN obj' = (DOMAIN obj) \cup public
              /\ \A k \in public : obj'[k] = _data.value[k]
              /\ \A k \in (DOMAIN obj) \ public : obj'[k] = obj[k]
              /\ ret'.attrs = obj'
              /\ UNCHANGED <<is_validated, errors, _data>>]_vars

C15_Witness ==
    /\ call.op = "bind"
    /\ call.outcome = "None"
    /\ csrf_field \in DOMAIN _data.value
    /\ DOMAIN obj = {NameField, csrf_field, ZipField}
    /\ obj[csrf_field] = "old"
    /\ obj[ZipField] = "old"
    /\ obj[NameField] = "Alice"

(* C16 as stated: once a validate() call has returned a boolean, a later   *)
(* validate() call with any arguments runs neither the CSRF check nor the  *)
(* schema engine and returns the cached result.                            *)
C16_LaterValidateReturnsCached ==
    [][(returned # {} /\ call'.op = "validate") =>
          /\ ~call'.csrf_checked
          /\ ~call'.schema_in.called
          /\ call'.outcome \in returned]_vars

(* C16 amended: once a validate() call has returned a boolean, a later     *)
(* validate() call with any arguments runs neither the CSRF check nor the  *)
(* schema engine, and returns the same boolean, except that on a form left *)
(* unvalidated by a request-method mismatch a later                        *)
(* validate(assert_valid=True) raises AssertionError.                      *)
C16_LaterValidateRunsNoChecks ==
    [][(returned # {} /\ call'.op = "validate") =>
          /\ ~call'.csrf_checked
          /\ ~call'.schema_in.called
          /\ IF ~is_validated /\ call'.assert_valid
             THEN call'.outcome = "AssertionError"
             ELSE call'.outcome \in returned]_vars

C16_Witness ==
    /\ returned = {"False"}
    /\ prev.op = "validate"
    /\ prev.outcome = "False"
    /\ call.op = "validate"
    /\ call.skip_csrf # prev.skip_csrf
    /\ call.outcome = "False"
    /\ is_validated
    /\ ~call.schema_in.called

(* C17: a Renderer built from a snapshot (data, errors, id_prefix), with   *)
(* no Form, answers errors_for(name) with the snapshot's messages for name *)
(* (a bare string as a one-element sequence, none as an empty sequence)    *)
(* and errorlist(name) with "" when there are none and otherwise a list    *)
(* with one item per message.                                              *)
C17_RendererAnswersFromSnapshot ==
    (renderer.kind = "Renderer" /\ rcall.op \in {"errors_for", "errorlist"}) =>
        LET msgs == IF rcall.name \in DOMAIN renderer.errors
                    THEN <<renderer.errors[rcall.name]>> ELSE <<>>
        IN  /\ rcall.outcome = "None"
            /\ Len(rcall.items) = Len(msgs)
            /\ rcall.op = "errors_for" => rcall.items = msgs
            /\ rcall.op = "errorlist" => (rcall.handed = "") = (msgs = <<>>)

(* C18 as stated: every control builder hands the tag builder the          *)
(* explicitly passed value when the caller supplies one, and otherwise the *)
(* value stored in data for the field name; value(name, default) returns   *)
(* the stored value when name is in data and default otherwise.            *)
C18_ExplicitValueWins ==
    LET stored(d) == IF rcall.name \in DOMAIN renderer.data
                     THEN renderer.data[rcall.name] ELSE d
    IN  /\ rcall.op \in Builders =>
              rcall.handed = (IF rcall.arg # PyNone THEN rcall.arg ELSE stored(PyNone))
        /\ rcall.op = "value" => rcall.handed = stored(rcall.arg)

(* C18 amended: hidden hands on the explicitly passed value when the       *)
(* caller supplies one and otherwise the value stored in data; text, file, *)
(* submit, select, textarea and password hand on the value stored in data  *)
(* for the field name when there is one, and the passed value only         *)
(* otherwise (select as a one-element list); value(name, default) returns  *)
(* the stored value when name is in data and default otherwise.            *)
C18_StoredValueWinsExceptHidden ==
    LET stored(d) == IF rcall.name \in DOMAIN renderer.data
                     THEN renderer.data[rcall.name] ELSE d
    IN  /\ rcall.op = "hidden" =>
              rcall.handed = (IF rcall.arg # PyNone THEN rcall.arg ELSE stored(PyNone))
        /\ rcall.op \in Builders \ {"hidden"} => rcall.handed = stored(rcall.arg)
        /\ rcall.op \in Builders => (rcall.wrapped = (rcall.op = "select"))
        /\ rcall.op = "value" => rcall.handed = stored(rcall.arg)

C18_Witness ==
    /\ rcall.op = "text"
    /\ rcall.arg = "explicit"
    /\ rcall.name \in DOMAIN renderer.data
    /\ rcall.handed = renderer.data[rcall.name]
    /\ rcall.handed # "explicit"

(* C19: constructing a FormRenderer from a Form that is not validated      *)
(* fails with FormNotValidated; so whenever a FormRenderer exists, after   *)
(* any later Form operations, the Form is validated, the renderer's data   *)
(* and errors snapshots equal the Form's current data and errors, and      *)
(* is_error(name) holds exactly when errors_for(name) is non-empty.        *)
C19_FormRendererNeedsValidatedForm ==
    /\ rcall.op = "FormRenderer" =>
          /\ ~is_validated => rcall.outcome = "FormNotValidated"
          /\ rcall.outcome = "None" => (is_validated /\ renderer.kind = "FormRenderer")
    /\ renderer.kind = "FormRenderer" =>
          /\ is_validated
          /\ renderer.data = _data.value
          /\ renderer.errors = errors
          /\ \A name \in FieldNames :
                Renderer_is_error(name) =
                    (/\ Renderer_errors_for(name).raises = "None"
                     /\ Renderer_errors_for(name).items # <<>>)

C19_Witness ==
    /\ renderer.kind = "FormRenderer"
    /\ DOMAIN renderer.errors # {}
    /\ rcall.op = "is_error"
    /\ rcall.flag
    /\ call.op = "bind"
    /\ call.outcome = "FormInvalid"

(* C20: a request that submits exactly the hidden field that               *)
(* FormRenderer.csrf rendered (its name mapped to the session's token)     *)
(* passes the Form's validate_csrf, also when the field name was           *)
(* overridden in csrf(name) or in the FormRenderer's csrf_field.           *)
C20_CsrfRoundTrip ==
    (/\ call.op = "validate_csrf"
     /\ call.given
     /\ rcall.op = "csrf"
     /\ call.params = [k \in {rcall.name} |-> rcall.handed])
        => call.outcome = "None"

====
